---- MODULE Spec2Model ----
(***************************************************************************)
(* Model of letterfin: the Letterboxd review parser, the streaming          *)
(* availability parser and the two scraper classes.                         *)
(*                                                                          *)
(* Strings are sequences of atoms.  An atom is a one-character string for   *)
(* every character an operation looks at ("/", " ", "<", "-", a digit ...)  *)
(* and an opaque run of other characters otherwise ("letterboxd.com").      *)
(* Optional values are sequences of length at most one: <<>> is None and    *)
(* <<x>> is the value x.                                                    *)
(***************************************************************************)
EXTENDS Integers, Sequences, FiniteSets, TLC

VARIABLES doc, idx, reviews, outcome,
          span, rating,
          body, extracted,
          payload, services,
          movie, wtw, requests

vars == <<doc, idx, reviews, outcome, span, rating, body, extracted,
          payload, services, movie, wtw, requests>>

reviewVars  == <<doc, idx, reviews, outcome>>
ratingVars  == <<span, rating>>
bodyVars    == <<body, extracted>>
serviceVars == <<payload, services>>
scraperVars == <<movie, wtw, requests>>

----------------------------------------------------------------------------
(* Bounds of the model *)

MaxBlocks == 2
MaxSuffix == 2
MaxGlyphs == 6
MaxParas == 2
MaxPieces == 3
MaxEntries == 2

----------------------------------------------------------------------------
(* Values *)

None == <<>>
Some(x) == <<x>>

\* The result of a call: a returned value or a raised exception.
Ret(v) == [ok |-> TRUE, val |-> <<v>>, exc |-> ""]
Raise(e) == [ok |-> FALSE, val |-> <<>>, exc |-> e]

\* A call that has not been made yet.
Pending == [ok |-> FALSE, val |-> <<>>, exc |-> ""]

----------------------------------------------------------------------------
(* String operations of the Python runtime *)

Range(s) == {s[i] : i \in 1..Len(s)}

\* str.isspace for one character
IsSpace(c) == c \in {" ", "\t", "\n"}

StartsWith(s, p) == Len(s) >= Len(p) /\ SubSeq(s, 1, Len(p)) = p

RECURSIVE LStrip(_, _)
LStrip(s, cs) == IF s # <<>> /\ Head(s) \in cs THEN LStrip(Tail(s), cs) ELSE s

RECURSIVE RStrip(_, _)
RStrip(s, cs) ==
    IF s # <<>> /\ s[Len(s)] \in cs THEN RStrip(SubSeq(s, 1, Len(s) - 1), cs) ELSE s

\* s.strip(chars)
StripChars(s, cs) == RStrip(LStrip(s, cs), cs)

\* s.strip()
Strip(s) == StripChars(s, {" ", "\t", "\n"})

\* s.count(c) for a one-character c
RECURSIVE Count(_, _)
Count(s, c) ==
    IF s = <<>> THEN 0 ELSE (IF Head(s) = c THEN 1 ELSE 0) + Count(Tail(s), c)

\* s.split(sep) for a one-character sep
RECURSIVE Split(_, _)
Split(s, sep) ==
    IF \A i \in 1..Len(s) : s[i] # sep THEN <<s>>
    ELSE LET k == CHOOSE i \in 1..Len(s) : s[i] = sep /\ \A j \in 1..(i - 1) : s[j] # sep
         IN <<SubSeq(s, 1, k - 1)>> \o Split(SubSeq(s, k + 1, Len(s)), sep)

\* sep.join(parts)
RECURSIVE Join(_, _)
Join(parts, sep) ==
    IF parts = <<>> THEN <<>>
    ELSE IF Len(parts) = 1 THEN parts[1]
    ELSE parts[1] \o sep \o Join(Tail(parts), sep)

\* s.replace(old, new), leftmost non-overlapping occurrences
RECURSIVE Replace(_, _, _)
Replace(s, old, new) ==
    IF s = <<>> THEN <<>>
    ELSE IF StartsWith(s, old) THEN new \o Replace(SubSeq(s, Len(old) + 1, Len(s)), old, new)
    ELSE <<Head(s)>> \o Replace(Tail(s), old, new)

\* re.sub(r'\s+', ' ', s)
RECURSIVE CollapseSpaces(_)
CollapseSpaces(s) ==
    IF s = <<>> THEN <<>>
    ELSE IF IsSpace(Head(s)) THEN <<" ">> \o CollapseSpaces(LStrip(s, {" ", "\t", "\n"}))
    ELSE <<Head(s)>> \o CollapseSpaces(Tail(s))

DigitChars == <<"0", "1", "2", "3", "4", "5", "6", "7", "8", "9">>

DigitValue(c) == CHOOSE d \in 0..9 : DigitChars[d + 1] = c

RECURSIVE DigitsValue(_)
DigitsValue(s) ==
    IF s = <<>> THEN 0 ELSE 10 * DigitsValue(SubSeq(s, 1, Len(s) - 1)) + DigitValue(s[Len(s)])

\* int(s): None stands for ValueError
ParseInt(s) ==
    LET signed == s # <<>> /\ Head(s) \in {"+", "-"}
        digits == IF signed THEN Tail(s) ELSE s
    IN  IF digits = <<>> \/ \E i \in 1..Len(digits) : digits[i] \notin Range(DigitChars)
        THEN None
        ELSE Some(IF signed /\ Head(s) = "-" THEN 0 - DigitsValue(digits) ELSE DigitsValue(digits))

\* str(n) for a natural number n
RECURSIVE StrNat(_)
StrNat(n) == IF n < 10 THEN <<DigitChars[n + 1]>> ELSE StrNat(n \div 10) \o <<DigitChars[(n % 10) + 1]>>

\* str(h / 2) for an integer h: the float's repr, "3.5" for h = 7
StrHalves(h) ==
    LET a == IF h < 0 THEN 0 - h ELSE h
    IN  (IF h < 0 THEN <<"-">> ELSE <<>>) \o StrNat(a \div 2)
          \o <<".">> \o (IF a % 2 = 0 THEN <<"0">> ELSE <<"5">>)

----------------------------------------------------------------------------
(* review_parser.py *)

_BASE_URL == <<"https:", "/", "/", "letterboxd.com">>

\* urljoin(_BASE_URL, url) for a url that starts with "/"
urljoin(base, url) ==
    IF StartsWith(url, <<"/", "/">>) /\ ~StartsWith(url, <<"/", "/", "/">>)
    THEN <<base[1]>> \o url
    ELSE base \o <<"/">> \o LStrip(url, {"/"})

Review(user, user_image, review_date, review_text, rt, likes_count, contains_spoilers) ==
    [user |-> user, user_image |-> user_image, review_date |-> review_date,
     review_text |-> review_text, rating |-> rt, likes_count |-> likes_count,
     contains_spoilers |-> contains_spoilers]

_extract_user_image(avatar_element) ==
    IF avatar_element = None THEN <<>>
    ELSE LET img_element == avatar_element[1].img
         IN  IF img_element = None \/ img_element[1].src = None THEN <<>>
             ELSE LET img_url == img_element[1].src[1]
                  IN  IF StartsWith(img_url, <<"/">>) THEN urljoin(_BASE_URL, img_url)
                      ELSE img_url

\* the star glyph and the half glyph of a rating's text
STAR == "*"
HALF == "h"

RATED_PREFIX == <<"r", "a", "t", "e", "d", "-">>

\* int(...) // 2 in place of int(...) / 2: the half is lost and str() has no point
_extract_rating_floor_division(attribution_block) ==
    IF attribution_block = None THEN Raise("AttributeError")
    ELSE LET rating_span == attribution_block[1].rating
         IN  IF rating_span = None THEN Ret(None)
             ELSE LET IsRated(c) == StartsWith(c, RATED_PREFIX)
                      rated_class == SelectSeq(rating_span[1].class, IsRated)
                  IN  IF rated_class # <<>>
                      THEN LET n == ParseInt(Split(rated_class[1], "-")[2])
                           IN  IF n = None THEN Raise("ValueError")
                               ELSE Ret(Some(StrNat(n[1] \div 2)))
                      ELSE LET stars_text == Strip(rating_span[1].text)
                           IN  IF stars_text = <<>> THEN Ret(None)
                               ELSE LET full_stars == Count(stars_text, STAR)
                                        half_star == HALF \in Range(stars_text)
                                    IN  Ret(Some(StrHalves(2 * full_stars
                                                     + (IF half_star THEN 1 ELSE 0))))

_extract_rating(attribution_block) ==
    IF attribution_block = None THEN Raise("AttributeError")
    ELSE LET rating_span == attribution_block[1].rating
         IN  IF rating_span = None THEN Ret(None)
             ELSE LET IsRated(c) == StartsWith(c, RATED_PREFIX)
                      rated_class == SelectSeq(rating_span[1].class, IsRated)
                  IN  IF rated_class # <<>>
                      THEN LET n == ParseInt(Split(rated_class[1], "-")[2])
                           IN  IF n = None THEN Raise("ValueError")
                               ELSE Ret(Some(StrHalves(n[1])))
                      ELSE LET stars_text == Strip(rating_span[1].text)
                           IN  IF stars_text = <<>> THEN Ret(None)
                               ELSE LET full_stars == Count(stars_text, STAR)
                                        half_star == HALF \in Range(stars_text)
                                    IN  Ret(Some(StrHalves(2 * full_stars
                                                     + (IF half_star THEN 1 ELSE 0))))

_extract_likes_count(review_block) ==
    LET likes_element == review_block.likes
    IN  IF likes_element # None /\ likes_element[1].count # None
        THEN LET n == ParseInt(likes_element[1].count[1])
             IN  IF n = None THEN Raise("ValueError") ELSE Ret(n)
        ELSE Ret(None)

BR == <<"<", "b", "r", ">">>

\* the cleaning without the .strip()
_clean_review_text_unstripped(text) == Replace(CollapseSpaces(text), BR, <<"\n">>)

_clean_review_text(text) == Replace(Strip(CollapseSpaces(text)), BR, <<"\n">>)

\* datetime.fromisoformat(s).strftime('%d %b %Y'); None stands for ValueError
FromIsoFormat(s) ==
    IF s \in {<<"2024-01-05T10:00:00">>, <<"2024-01-05T10:00:00", "+00:00">>}
    THEN Some(<<"05 Jan 2024">>)
    ELSE None

_extract_review_date(attribution_block) ==
    IF attribution_block = None THEN Raise("AttributeError")
    ELSE LET date_span == attribution_block[1].date
         IN  IF date_span # None
             THEN LET time_element == date_span[1].time
                      dt == IF time_element # None /\ time_element[1].datetime # None
                            THEN FromIsoFormat(Replace(time_element[1].datetime[1],
                                                       <<"Z">>, <<"+00:00">>))
                            ELSE None
                  IN  IF dt # None THEN Ret(dt[1]) ELSE Ret(Strip(date_span[1].text))
             ELSE Ret(<<>>)

\* a <br> element among the nodes of a paragraph
BR_TAG == "<br/>"

\* p.get_text(): the text nodes of the paragraph; an element has no text of its own
GetText(nodes) ==
    LET IsText(n) == n # BR_TAG
    IN  SelectSeq(nodes, IsText)

Texts(paras) == [i \in 1..Len(paras) |-> GetText(paras[i].nodes)]

\* the spoiler branch reading every paragraph of the body
_extract_spoiler_text_all_paragraphs(body_text) ==
    IF body_text = None THEN <<<<>>, FALSE>>
    ELSE LET paras == body_text[1].paras
             IsSpoilerMark(p) == p.cls = "contains-spoilers"
             spoiler_p == SelectSeq(paras, IsSpoilerMark)
         IN  <<_clean_review_text(Join(Texts(paras), <<" ">>)), spoiler_p # <<>>>>

_extract_spoiler_text(body_text) ==
    IF body_text = None THEN <<<<>>, FALSE>>
    ELSE LET paras == body_text[1].paras
             IsSpoilerMark(p) == p.cls = "contains-spoilers"
             InHidden(p) == p.hidden
             spoiler_p == SelectSeq(paras, IsSpoilerMark)
         IN  IF spoiler_p # <<>>
             THEN IF body_text[1].hiddenDiv
                  THEN <<_clean_review_text(Join(Texts(SelectSeq(paras, InHidden)), <<" ">>)),
                         TRUE>>
                  ELSE <<_clean_review_text(<<>>), TRUE>>
             ELSE <<_clean_review_text(Join(Texts(paras), <<" ">>)), FALSE>>

\* One iteration of the loop of extract_reviews: the block is skipped, a Review
\* is appended, or an exception leaves the loop.
Skipped == [kind |-> "skip", exc |-> "", review |-> <<>>]
Failed(e) == [kind |-> "raise", exc |-> e, review |-> <<>>]
Appended(r) == [kind |-> "review", exc |-> "", review |-> <<r>>]

ExtractBlock(element) ==
    LET avatar == element.avatar IN
    IF avatar # None /\ avatar[1].href = None THEN Failed("KeyError")
    ELSE
    LET user == IF avatar # None THEN StripChars(avatar[1].href[1], {"/"}) ELSE <<>>
        user_image == _extract_user_image(avatar)
        content_div == element.content
    IN  IF content_div = None THEN Skipped
        ELSE
        LET attribution_block == content_div[1].attribution
            body_text == content_div[1].body
            st == _extract_spoiler_text(body_text)
            review_date == _extract_review_date(attribution_block)
            rt == _extract_rating(attribution_block)
            likes_count == _extract_likes_count(content_div[1])
        IN  IF ~review_date.ok THEN Failed(review_date.exc)
            ELSE IF ~rt.ok THEN Failed(rt.exc)
            ELSE IF ~likes_count.ok THEN Failed(likes_count.exc)
            ELSE Appended(Review(user, user_image, review_date.val[1], st[1],
                                 rt.val[1], likes_count.val[1], st[2]))

----------------------------------------------------------------------------
(* Review documents: the <li class="film-detail"> blocks of a page, in order *)

Block(avatar, content) == [avatar |-> avatar, content |-> content]
Content(attribution, body_text, likes) ==
    [attribution |-> attribution, body |-> body_text, likes |-> likes]
Attribution(rating_span, date_span) == [rating |-> rating_span, date |-> date_span]
Avatar(href, img) == [href |-> href, img |-> img]
RatingSpan(class, text) == [class |-> class, text |-> text]
DateSpan(time, text) == [time |-> time, text |-> text]
Para(nodes, cls, hidden) == [nodes |-> nodes, cls |-> cls, hidden |-> hidden]
Body(paras, hiddenDiv) == [paras |-> paras, hiddenDiv |-> hiddenDiv]

RATING == <<"r", "a", "t", "i", "n", "g">>
Rated(suffix) == RATED_PREFIX \o suffix

Avatars ==
    { None,
      Some(Avatar(None, None)),
      Some(Avatar(Some(<<"/", "u1", "/">>), None)),
      Some(Avatar(Some(<<"/", "u1", "/">>), Some([src |-> None]))),
      Some(Avatar(Some(<<"/", "u1", "/">>), Some([src |-> Some(<<"/", "avatar", "/", "a.jpg">>)]))),
      Some(Avatar(Some(<<"/", "u2", "/">>), Some([src |-> Some(<<"https:", "/", "/", "cdn", "/", "a.jpg">>)]))) }

RatingSpans ==
    { None,
      Some(RatingSpan(<<RATING, Rated(<<"7">>)>>, <<>>)),
      Some(RatingSpan(<<RATING, Rated(<<"x">>)>>, <<>>)),
      Some(RatingSpan(<<RATING>>, <<" ", STAR, STAR, HALF, " ">>)),
      Some(RatingSpan(<<RATING>>, <<" ">>)) }

DateSpans ==
    { None,
      Some(DateSpan(None, <<" ", "5 days ago", " ">>)),
      Some(DateSpan(Some([datetime |-> None]), <<"Jan 5">>)),
      Some(DateSpan(Some([datetime |-> Some(<<"2024-01-05T10:00:00", "Z">>)]), <<"Jan 5">>)),
      Some(DateSpan(Some([datetime |-> Some(<<"yesterday">>)]), <<"Jan 5">>)) }

BodyTexts ==
    { None,
      Some(Body(<<Para(<<"x", " ", " ", "y">>, "", FALSE)>>, FALSE)),
      Some(Body(<<Para(<<"x">>, "contains-spoilers", FALSE), Para(<<"y">>, "", TRUE)>>, TRUE)),
      Some(Body(<<Para(<<"x">>, "contains-spoilers", FALSE), Para(<<"y">>, "", FALSE)>>, FALSE)) }

LikeTargets ==
    { None,
      Some([count |-> None]),
      Some([count |-> Some(<<"1", "2">>)]),
      Some([count |-> Some(<<"1", ",", "2">>)]) }

BaseAvatar == Some(Avatar(Some(<<"/", "u1", "/">>), None))
BaseRating == Some(RatingSpan(<<RATING, Rated(<<"7">>)>>, <<>>))
BaseDate == Some(DateSpan(None, <<" ", "5 days ago", " ">>))
BaseBody == Some(Body(<<Para(<<"x", " ", " ", "y">>, "", FALSE)>>, FALSE))
BaseLikes == Some([count |-> Some(<<"1", "2">>)])

\* The blocks of the model: a well-formed block with one of its parts varied,
\* and the blocks that lack the content div or the attribution block.
Blocks ==
    {Block(a, Some(Content(Some(Attribution(BaseRating, BaseDate)), BaseBody, BaseLikes))) :
        a \in Avatars}
    \cup {Block(BaseAvatar, Some(Content(Some(Attribution(r, BaseDate)), BaseBody, BaseLikes))) :
        r \in RatingSpans}
    \cup {Block(BaseAvatar, Some(Content(Some(Attribution(BaseRating, d)), BaseBody, BaseLikes))) :
        d \in DateSpans}
    \cup {Block(BaseAvatar, Some(Content(Some(Attribution(BaseRating, BaseDate)), b, BaseLikes))) :
        b \in BodyTexts}
    \cup {Block(BaseAvatar, Some(Content(Some(Attribution(BaseRating, BaseDate)), BaseBody, l))) :
        l \in LikeTargets}
    \cup {Block(a, None) : a \in Avatars}
    \cup {Block(BaseAvatar, Some(Content(None, b, BaseLikes))) : b \in BodyTexts}

SeqsUpTo(S, n) == UNION {[1..k -> S] : k \in 0..n}

Documents == SeqsUpTo(Blocks, MaxBlocks)

----------------------------------------------------------------------------
(* ReviewParser.extract_reviews *)

Running == [status |-> "running", exc |-> ""]
Returned == [status |-> "returned", exc |-> ""]
Raised(e) == [status |-> "raised", exc |-> e]

NotStarted == [status |-> "idle", exc |-> ""]

\* The components a specification does not exercise stay as constructed.
ReviewIdle == doc = <<>> /\ idx = 0 /\ reviews = <<>> /\ outcome = NotStarted
RatingIdle == span = None /\ rating = Pending
BodyIdle == body = None /\ extracted = <<>>
ServiceIdle == payload = <<>> /\ services = Pending
ScraperIdle == movie = <<>> /\ wtw = <<>> /\ requests = [call |-> "", made |-> <<>>, ok |-> TRUE]

InitReviews ==
    /\ doc \in Documents
    /\ idx = 0
    /\ reviews = <<>>
    /\ outcome = Running
    /\ RatingIdle /\ BodyIdle /\ ServiceIdle /\ ScraperIdle

\* reviews.insert(0, review) in place of reviews.append(review)
ExtractStepPrepend ==
    /\ outcome = Running
    /\ idx < Len(doc)
    /\ LET r == ExtractBlock(doc[idx + 1])
       IN  IF r.kind = "raise"
           THEN outcome' = Raised(r.exc) /\ UNCHANGED <<idx, reviews>>
           ELSE /\ idx' = idx + 1
                /\ reviews' = IF r.kind = "review" THEN <<r.review[1]>> \o reviews ELSE reviews
                /\ outcome' = outcome
    /\ UNCHANGED <<doc, ratingVars, bodyVars, serviceVars, scraperVars>>

\* the body of the for loop, for the block at idx + 1
ExtractStep ==
    /\ outcome = Running
    /\ idx < Len(doc)
    /\ LET r == ExtractBlock(doc[idx + 1])
       IN  IF r.kind = "raise"
           THEN outcome' = Raised(r.exc) /\ UNCHANGED <<idx, reviews>>
           ELSE /\ idx' = idx + 1
                /\ reviews' = IF r.kind = "review" THEN Append(reviews, r.review[1]) ELSE reviews
                /\ outcome' = outcome
    /\ UNCHANGED <<doc, ratingVars, bodyVars, serviceVars, scraperVars>>

\* return reviews
ExtractReturn ==
    /\ outcome = Running
    /\ idx = Len(doc)
    /\ outcome' = Returned
    /\ UNCHANGED <<doc, idx, reviews, ratingVars, bodyVars, serviceVars, scraperVars>>

NextReviews == ExtractStep \/ ExtractReturn

SpecReviews == InitReviews /\ [][NextReviews]_vars

Spec == SpecReviews

----------------------------------------------------------------------------
(* Claims about extract_reviews *)

HasContentDiv(b) == b.content # None

\* C1 as stated: extract_reviews returns exactly one Review per matched block,
\* the i-th record built from the i-th block of the document.
C1_OnePerBlock ==
    outcome = Returned =>
        /\ Len(reviews) = Len(doc)
        /\ \A i \in 1..Len(doc) : ExtractBlock(doc[i]).review = <<reviews[i]>>

\* C1 amended: at every point of the loop the reviews are those of the blocks
\* processed so far that have a film-detail-content div, in document order; a
\* block without one yields no record, and the loop returns only after the last
\* block; a document with no block gives the empty list.
C1_OnePerContentBlock ==
    LET kept == SelectSeq(SubSeq(doc, 1, idx), HasContentDiv)
    IN  /\ Len(reviews) = Len(kept)
        /\ \A k \in 1..Len(kept) : ExtractBlock(kept[k]).review = <<reviews[k]>>
        /\ outcome = Returned => idx = Len(doc)
        /\ (outcome = Returned /\ doc = <<>>) => reviews = <<>>

C1_Witness ==
    /\ outcome = Returned
    /\ Len(doc) >= 2
    /\ ~HasContentDiv(doc[1])
    /\ HasContentDiv(doc[2])
    /\ Len(reviews) = Len(doc) - 1
    /\ reviews[1].user = <<"u1">>

\* C2: extract_reviews never raises, whatever a block lacks.
C2_NeverRaises == outcome.status # "raised"

----------------------------------------------------------------------------
(* ReviewParser._extract_rating on its own *)

SuffixChars == {"0", "1", "7", "-", "x"}

RatedTokens == {Rated(sfx) : sfx \in SeqsUpTo(SuffixChars, MaxSuffix)}

StarTexts == SeqsUpTo({STAR, HALF, " "}, MaxGlyphs)

\* The rating indicators: none, a span with a rated-N class token before or
\* after the "rating" token, or a span with star glyphs as its text.
RatingInputs ==
    {None}
    \cup {Some(RatingSpan(c, t)) : c \in {<<RATING, tok>> : tok \in RatedTokens}
                                       \cup {<<tok, RATING>> : tok \in RatedTokens},
                                   t \in {<<>>, <<STAR>>}}
    \cup {Some(RatingSpan(<<RATING>>, t)) : t \in StarTexts}

InitRating ==
    /\ span \in RatingInputs
    /\ rating = Pending
    /\ ReviewIdle /\ BodyIdle /\ ServiceIdle /\ ScraperIdle

ExtractRating ==
    /\ rating = Pending
    /\ rating' = _extract_rating(Some(Attribution(span, None)))
    /\ UNCHANGED <<span, reviewVars, bodyVars, serviceVars, scraperVars>>

NextRating == ExtractRating

SpecRating == InitRating /\ [][NextRating]_vars

\* the strings "0.0", "0.5", ... "5.0"
ValidRatings ==
    {<<d, ".", f>> : d \in {"0", "1", "2", "3", "4"}, f \in {"0", "5"}} \cup {<<"5", ".", "0">>}

\* C3 as stated: the rating of a Review is None or a string denoting a multiple
\* of 0.5 in the range [0.0, 5.0], for every rating indicator.
C3_RatingInRange ==
    rating.ok => (rating.val[1] = None \/ rating.val[1][1] \in ValidRatings)

\* the number of halves a rating string denotes, 7 for "3.5"; None when the
\* string is not digits, a point and then 0 or 5
HalvesOf(str) ==
    LET parts == Split(str, ".")
        IsDigits(d) == d # <<>> /\ \A i \in 1..Len(d) : d[i] \in Range(DigitChars)
    IN  IF Len(parts) = 2 /\ IsDigits(parts[1]) /\ parts[2] \in {<<"0">>, <<"5">>}
        THEN Some(2 * DigitsValue(parts[1]) + (IF parts[2] = <<"5">> THEN 1 ELSE 0))
        ELSE None

\* the rated-N tokens of the indicator's class list, in order
RatedClasses(sp) ==
    LET IsRated(c) == StartsWith(c, RATED_PREFIX)
    IN  SelectSeq(sp.class, IsRated)

\* C3 amended: the rating is None or a string denoting a non-negative multiple
\* of 0.5: N/2 for the first rated-N class token, otherwise the number of star
\* glyphs of the text plus 0.5 for a half glyph.  It lies in [0.0, 5.0] exactly
\* when N <= 10, respectively when the glyphs count to at most 5.
C3_RatingHalfSteps ==
    (rating.ok /\ rating.val[1] # None) =>
        LET h == HalvesOf(rating.val[1][1])
            toks == RatedClasses(span[1])
            text == span[1].text
        IN  /\ h # None
            /\ toks # <<>> => Some(h[1]) = ParseInt(Split(toks[1], "-")[2])
            /\ toks = <<>> =>
                   h[1] = 2 * Count(text, STAR) + (IF HALF \in Range(text) THEN 1 ELSE 0)
            /\ (rating.val[1][1] \in ValidRatings) <=> (h[1] <= 10)

C3_Witness ==
    /\ rating.ok
    /\ span # None
    /\ RatedClasses(span[1]) = <<Rated(<<"7">>)>>
    /\ rating.val[1] = Some(<<"3", ".", "5">>)

----------------------------------------------------------------------------
(* ReviewParser._extract_spoiler_text on its own *)

ParaNodes == {<<"x">>, <<"y", " ">>, <<"\t", BR_TAG, "z">>}

Paras == {Para(t, c, h) : t \in ParaNodes, c \in {"", "contains-spoilers"}, h \in BOOLEAN}

\* Bodies of up to MaxParas paragraphs; a paragraph is hidden when it lies in
\* the hidden-spoilers div, which may also be there without a paragraph.
StructuredBodies ==
    {Some(Body(ps, hd)) : ps \in SeqsUpTo(Paras, MaxParas), hd \in BOOLEAN}

Pieces == {<<"x">>, <<" ">>, <<"\n">>, <<"<">>, BR, <<BR_TAG>>}

RECURSIVE Flatten(_)
Flatten(ss) == IF ss = <<>> THEN <<>> ELSE Head(ss) \o Flatten(Tail(ss))

PieceNodes == {Flatten(ps) : ps \in SeqsUpTo(Pieces, MaxPieces)}

\* Bodies of one paragraph of free content, plain or behind a spoiler marker.
TextBodies ==
    {Some(Body(<<Para(t, "", FALSE)>>, FALSE)) : t \in PieceNodes}
    \cup {Some(Body(<<Para(<<"x">>, "contains-spoilers", FALSE), Para(t, "", TRUE)>>, TRUE)) :
            t \in PieceNodes}

WellFormedBody(b) ==
    b = None \/ \A i \in 1..Len(b[1].paras) : b[1].paras[i].hidden => b[1].hiddenDiv

BodyInputs == {b \in {None} \cup StructuredBodies \cup TextBodies : WellFormedBody(b)}

InitBody ==
    /\ body \in BodyInputs
    /\ extracted = <<>>
    /\ ReviewIdle /\ RatingIdle /\ ServiceIdle /\ ScraperIdle

ExtractSpoilerText ==
    /\ extracted = <<>>
    /\ extracted' = _extract_spoiler_text(body)
    /\ UNCHANGED <<body, reviewVars, ratingVars, serviceVars, scraperVars>>

NextBody == ExtractSpoilerText

SpecBody == InitBody /\ [][NextBody]_vars

HasSpoilerMark(b) == \E i \in 1..Len(b[1].paras) : b[1].paras[i].cls = "contains-spoilers"

\* The paragraph texts the review text is to be built from, joined by spaces.
SourceText(b) ==
    LET IsHidden(p) == p.hidden
    IN  IF b = None THEN <<>>
        ELSE IF HasSpoilerMark(b) THEN Join(Texts(SelectSeq(b[1].paras, IsHidden)), <<" ">>)
        ELSE Join(Texts(b[1].paras), <<" ">>)

Atoms(ps) == UNION {Range(GetText(ps[i].nodes)) : i \in 1..Len(ps)}

\* C4: with a spoiler marker the flag is true and the text comes from the
\* hidden section's paragraphs only; without one the flag is false and the text
\* comes from all paragraphs; without a body the text is empty and the flag false.
C4_SpoilerGate ==
    extracted # <<>> =>
        /\ body = None => extracted = <<<<>>, FALSE>>
        /\ body # None =>
            LET IsHidden(p) == p.hidden
                hidden == SelectSeq(body[1].paras, IsHidden)
            IN  /\ extracted[2] = HasSpoilerMark(body)
                /\ extracted[1] = _clean_review_text(SourceText(body))
                /\ HasSpoilerMark(body) =>
                       Range(extracted[1]) \subseteq Atoms(hidden) \cup {" ", "\n"}

C4_Witness ==
    /\ extracted # <<>>
    /\ body # None
    /\ HasSpoilerMark(body)
    /\ \E i \in 1..Len(body[1].paras) :
          ~body[1].paras[i].hidden /\ "x" \in Range(body[1].paras[i].nodes)
    /\ extracted = <<<<"y">>, TRUE>>

HasBr(t) == \E i \in 1..Len(t) : StartsWith(SubSeq(t, i, Len(t)), BR)

\* C10 as stated: the review text has every run of whitespace collapsed to a
\* single space and no leading or trailing whitespace, also when the paragraph
\* text holds the characters '<br>' (which become a newline).
C10_Normalised ==
    extracted # <<>> =>
        LET t == extracted[1]
        IN  /\ t # <<>> => ~IsSpace(t[1]) /\ ~IsSpace(t[Len(t)])
            /\ \A i \in 1..Len(t) : IsSpace(t[i]) => t[i] \in {" ", "\n"}
            /\ \A i \in 1..(Len(t) - 1) : ~(IsSpace(t[i]) /\ IsSpace(t[i + 1]))

\* C10 amended: the text never starts or ends with a space and never holds two
\* spaces in a row or a tab; it holds a newline exactly when the paragraph text
\* holds '<br>', and such a newline may stand first, last or next to a space;
\* a text without '<br>' has no whitespace but single inner spaces.
C10_NormalisedUpToBr ==
    extracted # <<>> =>
        LET t == extracted[1]
            src == SourceText(body)
        IN  /\ t # <<>> => t[1] # " " /\ t[Len(t)] # " "
            /\ \A i \in 1..Len(t) : IsSpace(t[i]) => t[i] \in {" ", "\n"}
            /\ \A i \in 1..(Len(t) - 1) : ~(t[i] = " " /\ t[i + 1] = " ")
            /\ ("\n" \in Range(t)) <=> HasBr(src)
            /\ ~HasBr(src) => (t # <<>> => ~IsSpace(t[1]) /\ ~IsSpace(t[Len(t)]))

C10_Witness ==
    /\ extracted # <<>>
    /\ body # None
    /\ SourceText(body) = <<"x", " ">> \o BR
    /\ extracted[1] = <<"x", " ", "\n">>

----------------------------------------------------------------------------
(* wheretowatch_parser.py *)

\* JSON values as json.loads builds them.  A number is held in hundredths, so
\* 9.99 is 999; a string is a sequence of atoms; an object is a function from
\* its keys.
JNull == [t |-> "null"]
JBool(b) == [t |-> "bool", b |-> b]
JNum(n) == [t |-> "num", n |-> n]
JStr(str) == [t |-> "str", s |-> str]
JArr(items) == [t |-> "arr", items |-> items]
JObj(o) == [t |-> "obj", o |-> o]

EmptyStr == JStr(<<>>)

\* "is not None" in place of bool(v)
TruthyNotNone(v) == v.t # "null"

\* bool(v)
Truthy(v) ==
    CASE v.t = "null" -> FALSE
      [] v.t = "bool" -> v.b
      [] v.t = "num" -> v.n # 0
      [] v.t = "str" -> v.s # <<>>
      [] v.t = "arr" -> v.items # <<>>
      [] v.t = "obj" -> DOMAIN v.o # {}

\* float(s) for a string: a decimal literal with at most two fraction digits,
\* or anything else, which is a ValueError (None)
ParseFloat(str) ==
    LET parts == Split(str, ".")
        whole == ParseInt(parts[1])
        IsDigits(d) == d # <<>> /\ \A i \in 1..Len(d) : d[i] \in Range(DigitChars)
    IN  IF whole = None THEN None
        ELSE IF Len(parts) = 1 THEN Some(100 * whole[1])
        ELSE IF Len(parts) = 2 /\ IsDigits(parts[2]) /\ Len(parts[2]) <= 2
        THEN LET frac == IF Len(parts[2]) = 1 THEN 10 * DigitsValue(parts[2])
                         ELSE DigitsValue(parts[2])
             IN  Some(IF Head(str) = "-" THEN 100 * whole[1] - frac ELSE 100 * whole[1] + frac)
        ELSE None

\* float(v)
Float(v) ==
    CASE v.t = "num" -> Ret(v.n)
      [] v.t = "bool" -> Ret(IF v.b THEN 100 ELSE 0)
      [] v.t = "str" -> (LET f == ParseFloat(v.s)
                         IN  IF f = None THEN Raise("ValueError") ELSE Ret(f[1]))
      [] OTHER -> Raise("TypeError")

\* d.get(k, default)
DictGet(d, k, default) == IF k \in DOMAIN d THEN d[k] ELSE default

StreamingService(name, icon, locale, viewUrl, format, type, price, currency) ==
    [name |-> name, icon |-> icon, locale |-> locale, viewUrl |-> viewUrl,
     format |-> format, type |-> type, price |-> price, currency |-> currency]

\* "is not None" in place of the truthiness test of the price
_parse_service_keeps_zero(service_data) ==
    IF service_data.t # "obj" THEN Raise("AttributeError")
    ELSE LET d == service_data.o
             priced == DictGet(d, "price", JNull).t # "null"
         IN  IF priced /\ ~Float(d["price"]).ok THEN Float(d["price"])
             ELSE Ret(StreamingService(DictGet(d, "name", EmptyStr), DictGet(d, "icon", EmptyStr),
                                       DictGet(d, "locale", EmptyStr), DictGet(d, "viewUrl", EmptyStr),
                                       DictGet(d, "format", EmptyStr), DictGet(d, "type", EmptyStr),
                                       IF priced THEN Some(Float(d["price"]).val[1]) ELSE None,
                                       DictGet(d, "currency", EmptyStr)))

_parse_service(service_data) ==
    IF service_data.t # "obj" THEN Raise("AttributeError")
    ELSE LET d == service_data.o
             priced == Truthy(DictGet(d, "price", JNull))
         IN  IF priced /\ ~Float(d["price"]).ok THEN Float(d["price"])
             ELSE Ret(StreamingService(DictGet(d, "name", EmptyStr), DictGet(d, "icon", EmptyStr),
                                       DictGet(d, "locale", EmptyStr), DictGet(d, "viewUrl", EmptyStr),
                                       DictGet(d, "format", EmptyStr), DictGet(d, "type", EmptyStr),
                                       IF priced THEN Some(Float(d["price"]).val[1]) ELSE None,
                                       DictGet(d, "currency", EmptyStr)))

RECURSIVE SetToSeq(_)
SetToSeq(S) == IF S = {} THEN <<>> ELSE LET x == CHOOSE y \in S : TRUE IN <<x>> \o SetToSeq(S \ {x})

\* iter(v): the elements a for loop draws from v
Iterate(v) ==
    CASE v.t = "arr" -> Ret(v.items)
      [] v.t = "str" -> Ret([i \in 1..Len(v.s) |-> JStr(<<v.s[i]>>)])
      [] v.t = "obj" -> Ret([i \in 1..Cardinality(DOMAIN v.o) |-> JStr(<<SetToSeq(DOMAIN v.o)[i]>>)])
      [] OTHER -> Raise("TypeError")

\* the comprehension over reversed(items)
RECURSIVE ParseAllReversed(_)
ParseAllReversed(items) ==
    IF items = <<>> THEN Ret(<<>>)
    ELSE LET first == _parse_service(Head(items))
         IN  IF ~first.ok THEN first
             ELSE LET rest == ParseAllReversed(Tail(items))
                  IN  IF ~rest.ok THEN rest ELSE Ret(rest.val[1] \o <<first.val[1]>>)

\* [self._parse_service(service_data) for service_data in items]
RECURSIVE ParseAll(_)
ParseAll(items) ==
    IF items = <<>> THEN Ret(<<>>)
    ELSE LET first == _parse_service(Head(items))
         IN  IF ~first.ok THEN first
             ELSE LET rest == ParseAll(Tail(items))
                  IN  IF ~rest.ok THEN rest ELSE Ret(<<first.val[1]>> \o rest.val[1])

\* category in best_data
Contains(best_data, category) ==
    CASE best_data.t = "obj" -> Ret(category \in DOMAIN best_data.o)
      [] best_data.t = "arr" -> Ret(JStr(<<category>>) \in Range(best_data.items))
      [] best_data.t = "str" -> Ret(category \in Range(best_data.s))
      [] OTHER -> Raise("TypeError")

\* best_data[category]
Subscript(best_data, category) ==
    IF best_data.t = "obj" THEN Ret(best_data.o[category]) ELSE Raise("TypeError")

Categories == <<"stream", "rent", "buy">>

\* the for loop over the categories, from the categories cats on, with the
\* result built so far
RECURSIVE CategoryLoop(_, _, _)
CategoryLoop(best_data, cats, result) ==
    IF cats = <<>> THEN Ret(result)
    ELSE LET category == Head(cats)
             present == Contains(best_data, category)
         IN  IF ~present.ok THEN present
             ELSE IF ~present.val[1] THEN CategoryLoop(best_data, Tail(cats), result)
             ELSE LET value == Subscript(best_data, category)
                  IN  IF ~value.ok THEN value
                      ELSE LET items == Iterate(value.val[1])
                           IN  IF ~items.ok THEN items
                               ELSE LET svcs == ParseAll(items.val[1])
                                    IN  IF ~svcs.ok THEN svcs
                                        ELSE CategoryLoop(best_data, Tail(cats),
                                                          (category :> svcs.val[1]) @@ result)

WRAPPED_JSON == "ValueError wrapping JSONDecodeError"
WRAPPED_KEY == "ValueError wrapping KeyError"

\* except (json.JSONDecodeError, KeyError) as e: raise ValueError(...)
Wrap(r) ==
    IF r.exc = "JSONDecodeError" THEN Raise(WRAPPED_JSON)
    ELSE IF r.exc = "KeyError" THEN Raise(WRAPPED_KEY)
    ELSE r

\* json.loads(content): a text that is not JSON has no value
JsonLoads(content) == IF content = None THEN Raise("JSONDecodeError") ELSE Ret(content[1])

get_services(content) ==
    LET data == JsonLoads(content)
    IN  IF ~data.ok THEN Wrap(data)
        ELSE IF data.val[1].t # "obj" THEN Wrap(Raise("AttributeError"))
        ELSE Wrap(CategoryLoop(DictGet(data.val[1].o, "best", JObj(<<>>)), Categories, <<>>))

----------------------------------------------------------------------------
(* Payloads of the availability endpoint *)

Obj1(k1, v1) == JObj(k1 :> v1)
Obj2(k1, v1, k2, v2) == JObj((k1 :> v1) @@ (k2 :> v2))
Obj3(k1, v1, k2, v2, k3, v3) == JObj((k1 :> v1) @@ (k2 :> v2) @@ (k3 :> v3))

PriceValues ==
    { JNull, JNum(0), JNum(999), JNum(0 - 100), JBool(TRUE), JBool(FALSE),
      JStr(<<"9", ".", "9", "9">>), JStr(<<"-", "1">>), JStr(<<"abc">>), JStr(<<>>),
      JArr(<<>>), JArr(<<JNum(1)>>) }

\* The entries of a category array: objects with some of the keys, and values
\* that are no objects.
Entries ==
    {Obj3("name", JStr(<<"N">>), "price", pv, "currency", JStr(<<"USD">>)) : pv \in PriceValues}
    \cup { JObj(<<>>),
           Obj1("name", JStr(<<"M">>)),
           Obj2("name", JNull, "viewUrl", JStr(<<"https:", "/", "/", "v">>)),
           JStr(<<"N">>),
           JNull }

CategoryValues ==
    {JArr(items) : items \in SeqsUpTo(Entries, MaxEntries)}
    \cup { JNull, JNum(100), EmptyStr, JStr(<<"a", "b">>), JObj(<<>>), Obj1("name", JStr(<<"N">>)) }

GoodEntry == Obj3("name", JStr(<<"N">>), "price", JNum(999), "currency", JStr(<<"USD">>))
FreeEntry == Obj3("name", JStr(<<"N">>), "price", JNum(0), "currency", JStr(<<"USD">>))
BareEntry == Obj1("name", JStr(<<"M">>))

\* a "best" object: any subset of the categories, with or without a foreign key
BestObjects ==
    { JObj([k \in ks |-> CASE k = "stream" -> sv
                           [] k = "rent" -> rv
                           [] k = "buy" -> bv
                           [] OTHER -> JArr(<<GoodEntry>>)]) :
        ks \in SUBSET {"stream", "rent", "buy", "other"},
        sv \in CategoryValues,
        rv \in {JArr(<<FreeEntry>>), JNull},
        bv \in {JArr(<<>>), JArr(<<BareEntry, GoodEntry>>)} }

BestValues ==
    BestObjects
    \cup { JNull, JNum(500), JStr(<<"stream">>), JStr(<<"x">>), JArr(<<>>),
           JArr(<<JStr(<<"stream">>)>>) }

\* The payload texts: None is a text that is not JSON; the others are given by
\* the value they denote.
Payloads ==
    {None}
    \cup {Some(v) : v \in {JNull, JNum(100), JStr(<<"best">>), JArr(<<>>),
                           JArr(<<Obj1("best", JObj(<<>>))>>),
                           JObj(<<>>), Obj1("worst", JObj(<<>>))}}
    \cup {Some(Obj1("best", b)) : b \in BestValues}

InitServices ==
    /\ payload \in Payloads
    /\ services = Pending
    /\ ReviewIdle /\ RatingIdle /\ BodyIdle /\ ScraperIdle

GetServices ==
    /\ services = Pending
    /\ services' = get_services(payload)
    /\ UNCHANGED <<payload, reviewVars, ratingVars, bodyVars, scraperVars>>

NextServices == GetServices

SpecServices == InitServices /\ [][NextServices]_vars

----------------------------------------------------------------------------
(* Claims about get_services *)

Called == services # Pending

\* the payload's "best" object, when the payload has one
HasBestObject ==
    /\ payload # None
    /\ payload[1].t = "obj"
    /\ "best" \in DOMAIN payload[1].o
    /\ payload[1].o["best"].t = "obj"

BestObject == payload[1].o["best"].o

\* C5: the keys of the result are exactly the categories that are keys of the
\* payload's "best" object, and a category's sequence has one StreamingService
\* per element of the source array, in the array's order.
C5_CategoriesAndOrder ==
    (Called /\ services.ok) =>
        LET result == services.val[1]
        IN  /\ DOMAIN result =
                  IF HasBestObject THEN {"stream", "rent", "buy"} \cap DOMAIN BestObject ELSE {}
            /\ \A c \in DOMAIN result :
                  BestObject[c].t = "arr" =>
                      /\ Len(result[c]) = Len(BestObject[c].items)
                      /\ \A i \in 1..Len(result[c]) :
                            result[c][i].name = DictGet(BestObject[c].items[i].o, "name", EmptyStr)

C5_Witness ==
    /\ Called /\ services.ok
    /\ HasBestObject
    /\ DOMAIN BestObject = {"stream", "buy", "other"}
    /\ DOMAIN services.val[1] = {"stream", "buy"}
    /\ Len(services.val[1]["stream"]) = 2
    /\ services.val[1]["buy"][1].name = JStr(<<"M">>)
    /\ services.val[1]["buy"][2].name = JStr(<<"N">>)

\* whether the container keys can be traversed: an object at the top, an object
\* under "best", an array of objects under every category that is there
Traversable ==
    /\ HasBestObject
    /\ \A c \in {"stream", "rent", "buy"} \cap DOMAIN BestObject :
          /\ BestObject[c].t = "arr"
          /\ \A i \in 1..Len(BestObject[c].items) : BestObject[c].items[i].t = "obj"

IsWrappedValueError(e) == e \in {WRAPPED_JSON, WRAPPED_KEY}

\* C6: get_services fails with a ValueError that wraps the cause whenever the
\* payload is not valid JSON or its container keys cannot be traversed, and no
\* other kind of exception escapes it.
C6_ValueErrorOnly ==
    Called =>
        /\ ~Traversable => (~services.ok /\ IsWrappedValueError(services.exc))
        /\ ~services.ok => services.exc \in {WRAPPED_JSON, WRAPPED_KEY, "ValueError"}

\* C7: a price is the float of the source field when that field is present and
\* truthy and None when it is missing, null or zero; a missing string field is
\* the empty string.
C7_PriceAndDefaults ==
    (Called /\ services.ok) =>
        \A c \in DOMAIN services.val[1] :
            \A i \in 1..Len(services.val[1][c]) :
                LET svc == services.val[1][c][i]
                    src == BestObject[c].items[i].o
                IN  /\ ("price" \notin DOMAIN src) => svc.price = None
                    /\ ("price" \in DOMAIN src) =>
                          LET pv == src["price"]
                          IN  /\ pv = JNull => svc.price = None
                              /\ pv = JNum(0) => svc.price = None
                              /\ (pv.t = "num" /\ pv.n # 0) => svc.price = Some(pv.n)
                              /\ (pv.t = "str" /\ pv.s # <<>>) => svc.price = ParseFloat(pv.s)
                              /\ pv = JBool(TRUE) => svc.price = Some(100)
                              /\ ~Truthy(pv) => svc.price = None
                    /\ \A k \in {"name", "icon", "locale", "viewUrl", "format", "type", "currency"} :
                          svc[k] = IF k \in DOMAIN src THEN src[k] ELSE EmptyStr

C7_Witness ==
    /\ Called /\ services.ok
    /\ "stream" \in DOMAIN services.val[1]
    /\ Len(services.val[1]["stream"]) = 2
    /\ BestObject["stream"].items[1] = FreeEntry
    /\ services.val[1]["stream"][1].price = None
    /\ services.val[1]["stream"][2].price = Some(999)
    /\ services.val[1]["stream"][2].icon = EmptyStr

----------------------------------------------------------------------------
(* movie_scraper.py and wheretowatch_scraper.py *)

ImdbIds == {"tt1", "tt2"}

\* What the site answers.  The redirect of /imdb/<id>/ is a network failure, a
\* status other than 302, a 302 without a location, or a 302 with a location;
\* a location is the film's path or a path of slashes only.  A resolved value
\* carries the imdb id it was resolved for (src), which the program does not
\* see.
FilmPath(id) == <<"/", "film", "/", id, "/">>

RedirectResponses(id) ==
    { [failed |-> TRUE, status |-> 0, location |-> None],
      [failed |-> FALSE, status |-> 404, location |-> None],
      [failed |-> FALSE, status |-> 302, location |-> None],
      [failed |-> FALSE, status |-> 302, location |-> Some(<<>>)],
      [failed |-> FALSE, status |-> 302, location |-> Some(<<"/">>)],
      [failed |-> FALSE, status |-> 302, location |-> Some(FilmPath(id))] }

\* the film's JSON: a failed request, a body without a usable id, or an id
FilmId(id) == IF id = "tt1" THEN 11 ELSE 22

JsonResponses(id) ==
    { [failed |-> TRUE, id |-> None],
      [failed |-> FALSE, id |-> None],
      [failed |-> FALSE, id |-> Some(0)],
      [failed |-> FALSE, id |-> Some(FilmId(id))] }

Cached(value, src) == Some([value |-> value, src |-> src])

Request(kind, src) == [kind |-> kind, src |-> src]
Call(name, made, ok) == [call |-> name, made |-> made, ok |-> ok]

\* not self._movie_path: None or the empty string
NoPath(cache) == cache = None \/ cache[1].value = <<>>

\* not self._letterboxd_id: None or 0
NoId(cache) == cache = None \/ cache[1].value = 0

\* MovieScraper._get_movie_path: None stands for the exception it raises
_get_movie_path(response) ==
    IF response.failed \/ response.status # 302 THEN None
    ELSE IF response.location = None \/ response.location[1] = <<>> THEN None
    ELSE response.location

\* WhereToWatchScraper._get_movie_path: the same, with location.rstrip('/')
wtw_get_movie_path(response) ==
    IF response.failed \/ response.status # 302 THEN None
    ELSE IF response.location = None \/ response.location[1] = <<>> THEN None
    ELSE Some(RStrip(response.location[1], {"/"}))

InitScraper ==
    /\ movie \in [imdb_id : ImdbIds, _movie_path : {None}]
    /\ wtw \in [imdb_id : ImdbIds, _movie_path : {None}, _letterboxd_id : {None}]
    /\ requests = Call("", <<>>, TRUE)
    /\ ReviewIdle /\ RatingIdle /\ BodyIdle /\ ServiceIdle

\* MovieScraper.imdb_id = value
MovieSetImdbId ==
    \E value \in ImdbIds :
        /\ movie' = [imdb_id |-> value, _movie_path |-> None]
        /\ requests' = Call("movie.imdb_id", <<>>, TRUE)
        /\ UNCHANGED <<wtw, reviewVars, ratingVars, bodyVars, serviceVars>>

\* MovieScraper.get_reviews_url, and get_reviews_html when fetch is TRUE
MovieGetReviews(fetch) ==
    LET name == IF fetch THEN "movie.get_reviews_html" ELSE "movie.get_reviews_url"
    IN  IF ~NoPath(movie._movie_path)
        THEN /\ movie' = movie
             /\ \E pageOk \in BOOLEAN :
                   requests' = Call(name,
                                    IF fetch THEN <<Request("page", movie._movie_path[1].src)>>
                                    ELSE <<>>,
                                    ~fetch \/ pageOk)
        ELSE \E response \in RedirectResponses(movie.imdb_id) :
                LET location == _get_movie_path(response)
                    lookup == Request("redirect", movie.imdb_id)
                IN  IF location = None
                    THEN /\ movie' = movie
                         /\ requests' = Call(name, <<lookup>>, FALSE)
                    ELSE /\ movie' = [movie EXCEPT !._movie_path =
                                          Cached(location[1], movie.imdb_id)]
                         /\ \E pageOk \in BOOLEAN :
                               requests' = Call(name,
                                                IF fetch
                                                THEN <<lookup, Request("page", movie.imdb_id)>>
                                                ELSE <<lookup>>,
                                                ~fetch \/ pageOk)

MovieGetReviewsUrl ==
    /\ MovieGetReviews(FALSE)
    /\ UNCHANGED <<wtw, reviewVars, ratingVars, bodyVars, serviceVars>>

MovieGetReviewsHtml ==
    /\ MovieGetReviews(TRUE)
    /\ UNCHANGED <<wtw, reviewVars, ratingVars, bodyVars, serviceVars>>

\* WhereToWatchScraper.imdb_id = value
WtwSetImdbId ==
    \E value \in ImdbIds :
        /\ wtw' = [imdb_id |-> value, _movie_path |-> None, _letterboxd_id |-> None]
        /\ requests' = Call("wtw.imdb_id", <<>>, TRUE)
        /\ UNCHANGED <<movie, reviewVars, ratingVars, bodyVars, serviceVars>>

\* WhereToWatchScraper.get_services_json, with _get_letterboxd_id inlined
WtwGetServicesJson ==
    /\ IF ~NoId(wtw._letterboxd_id)
       THEN /\ wtw' = wtw
            /\ \E ok \in BOOLEAN :
                  requests' = Call("wtw.get_services_json",
                                   <<Request("availability", wtw._letterboxd_id[1].src)>>, ok)
       ELSE \E response \in RedirectResponses(wtw.imdb_id), film \in JsonResponses(wtw.imdb_id) :
               LET location == wtw_get_movie_path(response)
                   looked == NoPath(wtw._movie_path)
                   path == IF looked
                           THEN (IF location = None THEN None
                                 ELSE Cached(location[1], wtw.imdb_id))
                           ELSE wtw._movie_path
                   lookups == (IF looked THEN <<Request("redirect", wtw.imdb_id)>> ELSE <<>>)
               IN  IF path = None
                   THEN /\ wtw' = wtw
                        /\ requests' = Call("wtw.get_services_json", lookups, FALSE)
                   ELSE IF film.id = None
                   THEN /\ wtw' = [wtw EXCEPT !._movie_path = path]
                        /\ requests' = Call("wtw.get_services_json",
                                            lookups \o <<Request("json", path[1].src)>>, FALSE)
                   ELSE /\ wtw' = [wtw EXCEPT !._movie_path = path,
                                              !._letterboxd_id = Cached(film.id[1], path[1].src)]
                        /\ \E ok \in BOOLEAN :
                              requests' = Call("wtw.get_services_json",
                                               lookups \o <<Request("json", path[1].src),
                                                            Request("availability", path[1].src)>>,
                                               ok)
    /\ UNCHANGED <<movie, reviewVars, ratingVars, bodyVars, serviceVars>>

NextScraper ==
    \/ MovieSetImdbId
    \/ MovieGetReviewsUrl
    \/ MovieGetReviewsHtml
    \/ WtwSetImdbId
    \/ WtwGetServicesJson

SpecScraper == InitScraper /\ [][NextScraper]_vars

----------------------------------------------------------------------------
(* Claims about the scrapers' cached identifiers *)

Kinds(made) == {made[i].kind : i \in 1..Len(made)}

\* a cached identifier is unset or was resolved for the current imdb_id, and
\* every request of the last call used the imdb_id current at that call
CacheFresh ==
    /\ movie._movie_path # None => movie._movie_path[1].src = movie.imdb_id
    /\ wtw._movie_path # None => wtw._movie_path[1].src = wtw.imdb_id
    /\ wtw._letterboxd_id # None => wtw._letterboxd_id[1].src = wtw.imdb_id
    /\ \A i \in 1..Len(requests.made) :
          requests.made[i].src =
              IF requests.call \in {"movie.get_reviews_url", "movie.get_reviews_html"}
              THEN movie.imdb_id ELSE wtw.imdb_id

\* an assignment to imdb_id clears every cached identifier
SetterClears ==
    /\ requests'.call = "movie.imdb_id" => movie'._movie_path = None
    /\ requests'.call = "wtw.imdb_id" =>
          (wtw'._movie_path = None /\ wtw'._letterboxd_id = None)

\* a call that finds an identifier cached makes no new lookup for it
Reused ==
    /\ (requests'.call \in {"movie.get_reviews_url", "movie.get_reviews_html"}
          /\ movie._movie_path # None) => "redirect" \notin Kinds(requests'.made)
    /\ (requests'.call = "wtw.get_services_json" /\ wtw._movie_path # None)
          => "redirect" \notin Kinds(requests'.made)
    /\ (requests'.call = "wtw.get_services_json" /\ wtw._letterboxd_id # None)
          => "json" \notin Kinds(requests'.made)

\* C9: a cached identifier is unset or resolved for the current imdb_id; it is
\* computed on the first access that needs it and reused by later accesses
\* without a new lookup; every assignment to imdb_id clears the caches.
C9_LazyCache == []CacheFresh /\ [][SetterClears /\ Reused]_vars

\* a source price that is a negative number or a string denoting one
NegativeSource(pv) ==
    \/ pv.t = "num" /\ pv.n < 0
    \/ pv.t = "str" /\ pv.s # <<>> /\ Head(pv.s) = "-"

====
